---- MODULE Spec2Model ----
(***************************************************************************)
(* A model of the ranked retrieval core of milli:                          *)
(*   - the finalizer      (milli/src/search/criteria/final.rs),            *)
(*   - the proximity kernel (src/best_proximity.rs),                       *)
(*   - the facet iterators (milli/src/search/facet/facet_{range,iter}.rs). *)
(* Each component has its own specification over the shared variables.     *)
(***************************************************************************)
EXTENDS Integers, Sequences, FiniteSets, TLC

VARIABLES
    \* ---- Final (final.rs) ----
    query,                \* the search's query tree (Option<Operation>)
    parent_pending,       \* parent criterion: matching documents not yet put in a bucket
    returned_candidates,  \* Final.returned_candidates
    emitted,              \* the FinalResults returned so far, in order
    last_out,             \* what the last Final::next call returned
    last_excluded,        \* the excluded_candidates argument of the last call
    handed,               \* CriterionParameters.excluded_candidates of the last call
    last_bucket,          \* what parent.next returned in the last call
    calls,                \* number of Final::next calls made
    drain_clean,          \* every call so far passed an empty bitmap and none failed
    storage_failed,       \* the storage reads of the last call failed
    \* ---- best_proximity_for (best_proximity.rs) ----
    current_position,     \* argument current_position
    proximity,            \* argument proximity
    next_positions,       \* argument next_positions (sorted, duplicate-free)
    bpf_called,           \* the call has returned
    bpf_result,           \* its return value
    \* ---- BestProximity (best_proximity.rs) ----
    positions,            \* BestProximity.positions
    current_proximity,    \* BestProximity.current_proximity
    bp_items,             \* what the successive next() calls returned
    \* ---- FacetIter over the facet database (facet_iter.rs, facet_range.rs) ----
    db,                   \* facet_field_id_value_docids: key -> documents
    undecodable,          \* <<"key", k>>: the key of entry k fails to decode,
                          \* <<"bitmap", k>>: its bitmap does
    constructor,          \* the constructor the FacetIter was built with
    must_reduce,          \* FacetIter.must_reduce
    level_iters,          \* FacetIter.level_iters, the last frame on top
    start_ids,            \* the documents_ids the FacetIter was built with
    facet_items,          \* what the successive FacetIter::next calls returned
    \* ---- one FacetRange and one FacetRevRange (facet_range.rs) ----
    scan,                 \* the level and the two bounds both were built with
    forward,              \* the FacetRange
    backward,             \* the FacetRevRange
    forward_items,        \* what the successive FacetRange::next calls returned
    backward_items,       \* what the successive FacetRevRange::next calls returned
    \* ---- Criterion::from_str and Display (criterion.rs) ----
    faceted_attributes,   \* argument faceted_attributes
    txt,                  \* argument txt, a sequence of characters
    parsed,               \* Some(what from_str returned) once it was called
    rendered,             \* Some(to_string() of the parsed criterion) once formatted
    \* ---- the indexer: one index_csv per file, in parallel (bin/indexer.rs) ----
    ID_GENERATOR,         \* static ID_GENERATOR: AtomicUsize
    rdr,                  \* per file: the records its csv::Reader has left
    at,                   \* per file: where its index_csv stands
    documents,            \* per file: the document ids pushed to `documents`
    records_read          \* per file: the records read_record has returned

finalVars == <<query, parent_pending, returned_candidates, emitted, last_out,
               last_excluded, handed, last_bucket, calls, drain_clean,
               storage_failed>>
bpfVars   == <<current_position, proximity, next_positions, bpf_called, bpf_result>>
bpVars    == <<positions, current_proximity, bp_items>>
facetVars == <<db, undecodable, constructor, must_reduce, level_iters, start_ids, facet_items>>
rangeVars == <<scan, forward, backward, forward_items, backward_items>>
critVars  == <<faceted_attributes, txt, parsed, rendered>>
indexVars == <<ID_GENERATOR, rdr, at, documents, records_read>>
vars      == <<finalVars, bpfVars, bpVars, facetVars, rangeVars, critVars, indexVars>>

\* Option<T>
None    == [some |-> FALSE]
Some(x) == [some |-> TRUE, val |-> x]

\* Result<T>: an error propagated by `?`
Err == [err |-> TRUE]
Ok(x) == [err |-> FALSE, val |-> x]

RECURSIVE SeqUnion(_)
SeqUnion(s) == IF s = <<>> THEN {} ELSE Head(s) \cup SeqUnion(Tail(s))

(***************************************************************************)
(*                              BOUNDS                                     *)
(***************************************************************************)
MaxDoc   == 3     \* document ids are 1..MaxDoc
MaxCalls == 3     \* Final::next calls in one behaviour

Docs == 1..MaxDoc

(***************************************************************************)
(*            Query tree and its resolution (spec section 4.2)             *)
(***************************************************************************)
Words == {"a", "b"}

\* table 3 of the posting tables, summed over attributes: term -> documents
WordDocids(w) == IF w = "a" THEN {d \in Docs : d <= 2}
                            ELSE {d \in Docs : d >= 2 /\ d <= 3}

Word(w)   == [op |-> "Word", word |-> w]
And(l, r) == [op |-> "And", left |-> l, right |-> r]
Or(l, r)  == [op |-> "Or", left |-> l, right |-> r]

Operations == {Word("a"), Word("b"), And("a", "b"), Or("a", "b")}

\* resolve(tree): Word -> its postings, And -> intersection, Or -> union
resolve_query_tree(qt) ==
    CASE qt.op = "Word" -> WordDocids(qt.word)
      [] qt.op = "And"  -> WordDocids(qt.left) \cap WordDocids(qt.right)
      [] qt.op = "Or"   -> WordDocids(qt.left) \cup WordDocids(qt.right)

\* ctx.documents_ids(): every document of the index
documents_ids == Docs

\* The documents a search over `q` matches: the resolution of its query
\* tree, every document when the search has no query tree.
Matching(q) == IF q.some THEN resolve_query_tree(q.val) ELSE documents_ids

(***************************************************************************)
(*     The parent criterion (spec section 4.6): a producer of buckets      *)
(***************************************************************************)
CriterionResult(qt, cands, bucket) ==
    [query_tree |-> qt, candidates |-> cands, bucket_candidates |-> bucket]

\* The query trees a bucket of the search `q` may carry: the search's own
\* tree, or a refinement of it resolving to a part of its documents.
BucketTrees(q) ==
    {q} \cup {Some(t) : t \in {o \in Operations :
                                 resolve_query_tree(o) \subseteq Matching(q)}}

\* What parent.next(params) may return, with the parent's state after it:
\* an error, None once every pending document is excluded, or a bucket
\*   - whose candidates are present: a non-empty part of the pending
\*     documents, disjoint from params.excluded_candidates;
\*   - whose candidates are absent: the bucket is the resolution of its
\*     query tree, left to the caller.
ParentNext(q, pending, excluded_candidates) ==
    LET avail == pending \ excluded_candidates IN
    {[result |-> Err, pending |-> pending]}
    \cup
    (IF avail = {}
     THEN {[result |-> Ok(None), pending |-> {}]}
     ELSE {[result  |-> Ok(Some(CriterionResult(qt, Some(c), bc))),
            pending |-> avail \ c] :
              qt \in {q, None}, c \in (SUBSET avail) \ {{}}, bc \in {{}, pending}}
          \cup
          {[result  |-> Ok(Some(CriterionResult(qt, None, bc))),
            pending |-> avail \ Matching(qt)] :
              qt \in {t \in BucketTrees(q) : Matching(t) \cap avail # {}},
              bc \in {{}, pending}})

(***************************************************************************)
(*                     Final (final.rs lines 21-65)                        *)
(***************************************************************************)
FinalResult(qt, cands, bucket) ==
    [query_tree |-> qt, candidates |-> cands, bucket_candidates |-> bucket]

\* faulty variant: the caller's bitmap alone is handed to the parent
ExcludedForParent_CallerOnly(returned, excluded) == excluded

\* final.rs:40  &(&self.returned_candidates | excluded_candidates)
ExcludedForParent(returned, excluded) == returned \cup excluded

\* faulty variant: the query tree is ignored, every document is loaded
ResolveAbsent_AllDocuments(qt, storage_ok) ==
    IF ~storage_ok THEN Err ELSE Ok(documents_ids)

\* final.rs:48-51  the candidates of a bucket that carries none;
\* `storage_ok` is whether the storage reads succeed
ResolveAbsent(qt, storage_ok) ==
    IF ~storage_ok THEN Err
    ELSE IF qt.some THEN Ok(resolve_query_tree(qt.val))
    ELSE Ok(documents_ids)

\* faulty variant: a failed resolution is emitted as an empty bucket
Materialize_EmptyOnError(bucket, storage_ok) ==
    IF bucket.candidates.some
    THEN Ok(FinalResult(bucket.query_tree, bucket.candidates.val,
                        bucket.bucket_candidates))
    ELSE LET r == ResolveAbsent(bucket.query_tree, storage_ok) IN
         IF r.err THEN Ok(FinalResult(bucket.query_tree, {}, bucket.bucket_candidates))
         ELSE Ok(FinalResult(bucket.query_tree, r.val,
                             bucket.bucket_candidates \cup r.val))

\* faulty variant: bucket_candidates is not grown by the resolved candidates
Materialize_KeepBucket(bucket, storage_ok) ==
    IF bucket.candidates.some
    THEN Ok(FinalResult(bucket.query_tree, bucket.candidates.val,
                        bucket.bucket_candidates))
    ELSE LET r == ResolveAbsent(bucket.query_tree, storage_ok) IN
         IF r.err THEN Err
         ELSE Ok(FinalResult(bucket.query_tree, r.val, bucket.bucket_candidates))

\* final.rs:44-59  from the parent's bucket to the FinalResult
Materialize(bucket, storage_ok) ==
    IF bucket.candidates.some
    THEN Ok(FinalResult(bucket.query_tree, bucket.candidates.val,
                        bucket.bucket_candidates))
    ELSE LET r == ResolveAbsent(bucket.query_tree, storage_ok) IN
         IF r.err THEN Err
         ELSE Ok(FinalResult(bucket.query_tree, r.val,
                             bucket.bucket_candidates \cup r.val))

\* final.rs:57  self.returned_candidates.union_with(&candidates)
Returned(returned, candidates) == returned \cup candidates

\* final.rs:34-64  Final::next(excluded_candidates)
FinalNext(excluded) ==
    /\ calls < MaxCalls
    /\ LET params == ExcludedForParent(returned_candidates, excluded) IN
       \E p \in ParentNext(query, parent_pending, params), storage_ok \in BOOLEAN :
          LET out == IF p.result.err THEN Err
                     ELSE IF ~p.result.val.some THEN Ok(None)
                     ELSE LET m == Materialize(p.result.val.val, storage_ok) IN
                          IF m.err THEN Err ELSE Ok(Some(m.val))
              yields == ~out.err /\ out.val.some
          IN
          \* a bucket with candidates reads no storage
          /\ (p.result.err \/ ~p.result.val.some
                \/ p.result.val.val.candidates.some) => storage_ok
          /\ handed' = params
          /\ last_excluded' = excluded
          /\ last_bucket' = p.result
          /\ parent_pending' = p.pending
          /\ last_out' = out
          /\ returned_candidates' =
                IF yields THEN Returned(returned_candidates, out.val.val.candidates)
                ELSE returned_candidates
          /\ emitted' = IF yields THEN Append(emitted, out.val.val) ELSE emitted
          /\ calls' = calls + 1
          /\ drain_clean' = (drain_clean /\ excluded = {} /\ ~out.err)
          /\ storage_failed' = ~storage_ok
    /\ UNCHANGED <<query, bpfVars, bpVars, facetVars, rangeVars, critVars, indexVars>>

Call == \E excluded \in SUBSET Docs : FinalNext(excluded)

\* final.rs:29-31  Final::new over a parent built for the search `query`
InitFinalState ==
    /\ query \in {None} \cup {Some(t) : t \in Operations}
    /\ parent_pending = Matching(query)
    /\ returned_candidates = {}
    /\ emitted = <<>>
    /\ last_out = Ok(None)
    /\ last_excluded = {}
    /\ handed = {}
    /\ last_bucket = Ok(None)
    /\ calls = 0
    /\ drain_clean = TRUE
    /\ storage_failed = FALSE

(***************************************************************************)
(*              best_proximity_for (best_proximity.rs 1-107)               *)
(***************************************************************************)
ONE_ATTRIBUTE == 1000
MAX_INDEX     == ONE_ATTRIBUTE - 1
MAX_DISTANCE  == 8

Min(a, b) == IF a <= b THEN a ELSE b
Max(a, b) == IF a >= b THEN a ELSE b

\* best_proximity.rs:8-10  (attribute, index)
extract_position(position) ==
    <<position \div ONE_ATTRIBUTE, position % ONE_ATTRIBUTE>>

\* best_proximity.rs:13-15
construct_position(attr, index) == attr * ONE_ATTRIBUTE + index

\* slice::binary_search on a sorted duplicate-free slice: Ok(index of x),
\* or Err(index where x would be inserted); indices count from 0
binary_search(slice, x) ==
    LET below == Cardinality({i \in 1..Len(slice) : slice[i] < x}) IN
    [ok |-> below < Len(slice) /\ slice[below + 1] = x, i |-> below]

\* &slice[..=i] and &slice[i..], i counted from 0
SliceToInclusive(slice, i) == SubSeq(slice, 1, i + 1)
SliceFrom(slice, i)        == SubSeq(slice, i + 1, Len(slice))

\* faulty variant: the position behind is taken at proximity instead of proximity - 1
Behind_OffByOne(cur, prox, next) ==
    LET position == cur - prox IN
    IF /\ position >= 0
       /\ extract_position(cur)[1] = extract_position(position)[1]
       /\ binary_search(next, position).ok
    THEN <<position>> ELSE <<>>

\* best_proximity.rs:50-57  2..=7, behind the current position
Behind(cur, prox, next) ==
    LET position == cur - (prox - 1) IN
    IF /\ position >= 0                                   \* checked_sub
       /\ extract_position(cur)[1] = extract_position(position)[1]
       /\ binary_search(next, position).ok
    THEN <<position>> ELSE <<>>

\* faulty variant: the attribute of the position in front is not compared
InFront_AnyAttribute(cur, prox, next) ==
    LET position == cur + prox IN
    IF binary_search(next, position).ok THEN <<position>> ELSE <<>>

\* best_proximity.rs:59-65  2..=7, in front of the current position
InFront(cur, prox, next) ==
    LET position == cur + prox IN
    IF /\ extract_position(cur)[1] = extract_position(position)[1]
       /\ binary_search(next, position).ok
    THEN <<position>> ELSE <<>>

\* best_proximity.rs:77-88  proximity 8, everything far enough behind
FarBehind(cur, next) ==
    LET current_attr == extract_position(cur)[1]
        previous_position == construct_position(current_attr, 0) - 1
    IN
    IF previous_position < 0 THEN <<>>                    \* checked_sub(1)
    ELSE LET position == Max(Max(cur - 7, 0), previous_position)
             found    == binary_search(next, position)
         IN  IF found.ok THEN SliceToInclusive(next, found.i)
             ELSE IF found.i - 1 >= 0 THEN SliceToInclusive(next, found.i - 1)
             ELSE <<>>

\* best_proximity.rs:90-97  proximity 8, everything far enough in front
FarInFront(cur, next) ==
    LET current_attr == extract_position(cur)[1]
        position == Min(cur + 8, construct_position(current_attr + 1, 0))
        found    == binary_search(next, position)
    IN  SliceFrom(next, found.i)

ProximityResult(prox, found) == Some([proximity |-> prox, positions |-> found])

\* best_proximity.rs:19-107
RECURSIVE best_proximity_for(_, _, _)
best_proximity_for(cur, prox, next) ==
    LET current_attr == extract_position(cur)[1] IN
    CASE prox = 0 ->
            IF binary_search(next, cur).ok
            THEN ProximityResult(0, <<cur>>)
            ELSE best_proximity_for(cur, prox + 1, next)
      [] prox = 1 ->
            LET position == cur + 1
                attr     == extract_position(position)[1]
            IN  IF current_attr = attr /\ binary_search(next, position).ok
                THEN ProximityResult(1, <<position>>)
                ELSE best_proximity_for(cur, prox + 1, next)
      [] prox \in 2..7 ->
            LET output == Behind(cur, prox, next) \o InFront(cur, prox, next) IN
            IF output = <<>>
            THEN best_proximity_for(cur, prox + 1, next)
            ELSE ProximityResult(prox, output)
      [] prox = 8 ->
            LET output == FarBehind(cur, next) \o FarInFront(cur, next) IN
            IF output = <<>> THEN None ELSE ProximityResult(8, output)
      [] OTHER -> None

\* ---- the arguments the calls are made with ----
MaxListLen == 3      \* entries of next_positions

PositionDomain ==
    {0, 2, 3, 4, 9, 10, 11, 994, 999, 1000, 1002, 1007, 1008, 1009, 2012}

RECURSIVE SortedSeq(_)
SortedSeq(S) ==
    IF S = {} THEN <<>>
    ELSE LET m == CHOOSE x \in S : \A y \in S : x <= y
         IN  <<m>> \o SortedSeq(S \ {m})

SortedLists(domain, maxLen) ==
    {SortedSeq(S) : S \in {T \in SUBSET domain : Cardinality(T) <= maxLen}}

InitBpf ==
    /\ current_position \in PositionDomain
    /\ proximity \in 0..(MAX_DISTANCE + 1)
    /\ next_positions \in SortedLists(PositionDomain, MaxListLen)
    /\ bpf_called = FALSE
    /\ bpf_result = None

CallBestProximityFor ==
    /\ ~bpf_called
    /\ bpf_called' = TRUE
    /\ bpf_result' = best_proximity_for(current_position, proximity, next_positions)
    /\ UNCHANGED <<current_position, proximity, next_positions, finalVars, bpVars, facetVars, rangeVars, critVars, indexVars>>


(***************************************************************************)
(*                BestProximity (best_proximity.rs 109-148)                *)
(***************************************************************************)
MaxTerms == 2        \* position lists handed to BestProximity::new
MaxNext  == 3        \* next() calls in one behaviour

TermPositions == {0, 1, 3}

\* best_proximity.rs:155-160  the lists of tests::same_attribute
SameAttributeLists == <<  <<0, 2, 3, 4>>, <<1>>, <<3, 6>>  >>

\* best_proximity.rs:115-117  BestProximity::new(positions)
InitBp ==
    /\ positions \in
          UNION {[1..n -> SortedLists(TermPositions, MaxListLen)] : n \in 0..MaxTerms}
          \cup {SameAttributeLists}
    /\ current_proximity = None
    /\ bp_items = <<>>

\* best_proximity.rs:123-147  the item next() returns: the loop over the
\* lists only prints, `output` and `best_proximity` are returned as created
NextItem(lists, where) == Some([proximity |-> 0, positions |-> <<>>])

\* best_proximity.rs:123-147  <BestProximity as Iterator>::next
BestProximityNext ==
    /\ Len(bp_items) < MaxNext
    /\ bp_items' = Append(bp_items, NextItem(positions, current_proximity))
    /\ UNCHANGED <<positions, current_proximity, finalVars, bpfVars, facetVars, rangeVars, critVars, indexVars>>

(***************************************************************************)
(*          The facet database (spec section 3, "Facet tree")              *)
(***************************************************************************)
MaxLevel == 2        \* levels of the facet tree above level 0
MaxFacetNext == 5    \* FacetIter::next calls in one behaviour

\* the facet value type T: its values, T::min_value() and T::max_value()
MinValue == 0
MaxValue == 2
FacetValues == MinValue..MaxValue
FacetDocs == {1, 2}

\* a key is <<field_id, level, left, right>>, ordered as its encoding is:
\* component by component
FieldId == 1
Key(fid, level, left, right) == <<fid, level, left, right>>

KeyLess(a, b) ==
    \E i \in 1..4 : a[i] < b[i] /\ \A j \in 1..(i - 1) : a[j] = b[j]

RECURSIVE KeysInOrder(_)
KeysInOrder(K) ==
    IF K = {} THEN <<>>
    ELSE LET first == CHOOSE k \in K : \A other \in K \ {k} : KeyLess(k, other)
         IN  <<first>> \o KeysInOrder(K \ {first})

Reverse(seq) == [i \in 1..Len(seq) |-> seq[Len(seq) + 1 - i]]

\* the ranges of a level: the value domain cut before each value of `cuts`
LevelRanges(cuts) ==
    {<<l, r>> \in FacetValues \X FacetValues :
        /\ l <= r
        /\ l = MinValue \/ l \in cuts
        /\ r = MaxValue \/ r + 1 \in cuts
        /\ \A c \in cuts : ~(l < c /\ c <= r)}

\* documents whose facet value lies in l..r
DocidsIn(level0, l, r) == UNION {level0[v] : v \in l..r}

\* the entries of the iterated field: level 0 holds one key per value that
\* some document has, level k > 0 the non-empty ranges of its cuts
FieldEntries(level0, cuts) ==
    [k \in {Key(FieldId, 0, v, v) : v \in {w \in FacetValues : level0[w] # {}}}
           \cup UNION {{Key(FieldId, lv, x[1], x[2]) :
                           x \in {y \in LevelRanges(cuts[lv]) :
                                     DocidsIn(level0, y[1], y[2]) # {}}} :
                       lv \in 1..Len(cuts)}
       |-> DocidsIn(level0, k[3], k[4])]

\* entries of the neighbouring fields, which no scan of FieldId may reach
OtherFields ==
    (Key(FieldId - 1, 3, MinValue, MaxValue) :> FacetDocs)
        @@ (Key(FieldId + 1, 0, MinValue, MinValue) :> FacetDocs)

(***************************************************************************)
(*        FacetRange and FacetRevRange (facet_range.rs 11-132)             *)
(***************************************************************************)
Included(x) == [kind |-> "Included", val |-> x]
Excluded(x) == [kind |-> "Excluded", val |-> x]
Unbounded   == [kind |-> "Unbounded"]

\* facet_range.rs:30-34 and 91-95
LeftBound(field_id, level, left) ==
    CASE left.kind = "Included" -> Included(Key(field_id, level, left.val, MinValue))
      [] left.kind = "Excluded" -> Excluded(Key(field_id, level, left.val, MinValue))
      [] OTHER                  -> Included(Key(field_id, level, MinValue, MinValue))

\* facet_range.rs:35 and 96
RightBound(field_id, level) == Included(Key(field_id, level, MaxValue, MaxValue))

\* heed Database::range: the keys between the two bounds, in key order
RangeKeys(database, lower, upper) ==
    KeysInOrder({k \in DOMAIN database :
        /\ IF lower.kind = "Included" THEN ~KeyLess(k, lower.val)
                                      ELSE KeyLess(lower.val, k)
        /\ ~KeyLess(upper.val, k)})

\* faulty variant: the scan starts at the first entry of the level
FacetRange_new_FromStart(database, field_id, level, left, right) ==
    [ascending |-> TRUE, level |-> level, end |-> right,
     iter |-> RangeKeys(database, LeftBound(field_id, level, Unbounded),
                        RightBound(field_id, level))]

\* facet_range.rs:21-38  FacetRange::new
FacetRange_new(database, field_id, level, left, right) ==
    [ascending |-> TRUE, level |-> level, end |-> right,
     iter |-> RangeKeys(database, LeftBound(field_id, level, left),
                        RightBound(field_id, level))]

\* faulty variant: the reverse range scans forward
FacetRevRange_new_Forward(database, field_id, level, left, right) ==
    [ascending |-> FALSE, level |-> level, end |-> right,
     iter |-> RangeKeys(database, LeftBound(field_id, level, left),
                        RightBound(field_id, level))]

\* facet_range.rs:82-99  FacetRevRange::new
FacetRevRange_new(database, field_id, level, left, right) ==
    [ascending |-> FALSE, level |-> level, end |-> right,
     iter |-> Reverse(RangeKeys(database, LeftBound(field_id, level, left),
                                RightBound(field_id, level)))]

\* facet_range.rs:52-56 and 114-118
must_be_returned(end, right) ==
    CASE end.kind = "Included" -> right <= end.val
      [] end.kind = "Excluded" -> right < end.val
      [] OTHER                 -> TRUE

\* facet_range.rs:50 and 112  what self.iter.next() hands over for an entry:
\* the decoded key with the bitmap still encoded, or the key's decoding error
KeyDecodes(bad, key) == <<"key", key>> \notin bad

\* facet_range.rs:58-61 and 120-123  docids.decode()
Decode(database, bad, key) ==
    IF <<"bitmap", key>> \in bad THEN Err
    ELSE Ok([key |-> key, docids |-> database[key]])

\* faulty variant: an entry beyond the end is skipped, as FacetRevRange does
RECURSIVE FacetRange_next_Skipping(_, _, _)
FacetRange_next_Skipping(range, database, bad) ==
    IF range.iter = <<>> THEN [range |-> range, item |-> None]
    ELSE LET key  == Head(range.iter)
             rest == [range EXCEPT !.iter = Tail(@)]
         IN  IF ~KeyDecodes(bad, key) THEN [range |-> rest, item |-> Some(Err)]
             ELSE IF must_be_returned(range.end, key[4])
             THEN [range |-> rest, item |-> Some(Decode(database, bad, key))]
             ELSE FacetRange_next_Skipping(rest, database, bad)

\* facet_range.rs:49-69  FacetRange::next: the range after the call and
\* the item returned
FacetRange_next(range, database, bad) ==
    IF range.iter = <<>> THEN [range |-> range, item |-> None]
    ELSE LET key  == Head(range.iter)
             rest == [range EXCEPT !.iter = Tail(@)]
         IN  IF ~KeyDecodes(bad, key) THEN [range |-> rest, item |-> Some(Err)]
             ELSE IF must_be_returned(range.end, key[4])
             THEN [range |-> rest, item |-> Some(Decode(database, bad, key))]
             ELSE [range |-> rest, item |-> None]

\* faulty variant: the scan ends at an entry beyond the end, as FacetRange does
FacetRevRange_next_Stopping(range, database, bad) ==
    IF range.iter = <<>> THEN [range |-> range, item |-> None]
    ELSE LET key  == Head(range.iter)
             rest == [range EXCEPT !.iter = Tail(@)]
         IN  IF ~KeyDecodes(bad, key) THEN [range |-> rest, item |-> Some(Err)]
             ELSE IF must_be_returned(range.end, key[4])
             THEN [range |-> rest, item |-> Some(Decode(database, bad, key))]
             ELSE [range |-> rest, item |-> None]

\* facet_range.rs:110-131  FacetRevRange::next
RECURSIVE FacetRevRange_next(_, _, _)
FacetRevRange_next(range, database, bad) ==
    IF range.iter = <<>> THEN [range |-> range, item |-> None]
    ELSE LET key  == Head(range.iter)
             rest == [range EXCEPT !.iter = Tail(@)]
         IN  IF ~KeyDecodes(bad, key) THEN [range |-> rest, item |-> Some(Err)]
             ELSE IF must_be_returned(range.end, key[4])
             THEN [range |-> rest, item |-> Some(Decode(database, bad, key))]
             ELSE FacetRevRange_next(rest, database, bad)

\* Either<FacetRange, FacetRevRange> as Iterator
Either_next(range, database, bad) ==
    IF range.ascending THEN FacetRange_next(range, database, bad)
    ELSE FacetRevRange_next(range, database, bad)

(***************************************************************************)
(*                    FacetIter (facet_iter.rs 16-157)                     *)
(***************************************************************************)
\* facet_iter.rs:82-89  FacetIter::highest_level
highest_level(database, fid) ==
    LET keys == {k \in DOMAIN database : k[1] = fid} IN
    IF keys = {} THEN None
    ELSE Some((CHOOSE k \in keys : \A other \in keys \ {k} : KeyLess(other, k))[2])

unwrap_or(option, default) == IF option.some THEN option.val ELSE default

Frame(ids, range) == [documents_ids |-> ids, range |-> range]

\* faulty variant: the ascending constructors build the reverse range
new_ascending_Reverse(database, field_id, ids) ==
    <<Frame(ids,
            FacetRevRange_new(database, field_id,
                              unwrap_or(highest_level(database, field_id), 0),
                              Unbounded, Unbounded))>>

\* facet_iter.rs:33-45  FacetIter::new_reducing (and 68-80 new_non_reducing)
new_ascending(database, field_id, ids) ==
    <<Frame(ids,
            FacetRange_new(database, field_id,
                           unwrap_or(highest_level(database, field_id), 0),
                           Unbounded, Unbounded))>>

\* facet_iter.rs:50-62  FacetIter::new_reverse_reducing
new_reverse(database, field_id, ids) ==
    <<Frame(ids,
            FacetRevRange_new(database, field_id,
                              unwrap_or(highest_level(database, field_id), 0),
                              Unbounded, Unbounded))>>

\* faulty variant: the right end of the entry is excluded from the range below
SubRange_ExcludedRight(database, field_id, ascending, level, left, right) ==
    IF ascending
    THEN FacetRange_new(database, field_id, level - 1, Included(left), Excluded(right))
    ELSE FacetRevRange_new(database, field_id, level - 1, Included(left), Excluded(right))

\* facet_iter.rs:136-140  the range over the level below an entry
\* Opening the sub-range reads nothing: with deterministic storage it succeeds
\* whenever the constructor's own range did, so its `?` never fires here.
SubRange(database, field_id, ascending, level, left, right) ==
    IF ascending
    THEN FacetRange_new(database, field_id, level - 1, Included(left), Included(right))
    ELSE FacetRevRange_new(database, field_id, level - 1, Included(left), Included(right))

\* faulty variant: the frame is reduced whatever must_reduce says
Remaining_AlwaysReduce(ids, docids, reduce) == ids \ docids

\* facet_iter.rs:117-119  what the frame keeps of its documents_ids
Remaining(ids, docids, reduce) == IF reduce THEN ids \ docids ELSE ids

Pop(stack) == SubSeq(stack, 1, Len(stack) - 1)
ReplaceLast(stack, frame) == [stack EXCEPT ![Len(stack)] = frame]

\* facet_iter.rs:100-156  FacetIter::next: the stack after the call and the
\* item returned
RECURSIVE FacetIter_next(_, _, _, _)
FacetIter_next(stack, database, bad, reduce) ==
    IF stack = <<>> THEN [level_iters |-> stack, item |-> None]       \* last_mut()?
    ELSE
    LET last   == stack[Len(stack)]
        pulled == Either_next(last.range, database, bad)
        moved  == ReplaceLast(stack, Frame(last.documents_ids, pulled.range))
    IN
    IF ~pulled.item.some                                   \* the for loop ends
        THEN FacetIter_next(Pop(stack), database, bad, reduce)
    ELSE IF last.documents_ids = {}                        \* break
        THEN FacetIter_next(Pop(stack), database, bad, reduce)
    ELSE IF pulled.item.val.err
        THEN [level_iters |-> moved, item |-> Some(Err)]
    ELSE
    LET key    == pulled.item.val.val.key
        docids == pulled.item.val.val.docids \cap last.documents_ids
        left_ids == Remaining(last.documents_ids, docids, reduce)
        kept   == ReplaceLast(stack, Frame(left_ids, pulled.range))
    IN
    IF docids = {} THEN FacetIter_next(moved, database, bad, reduce)
    ELSE IF key[2] = 0
        THEN [level_iters |-> kept,
              item |-> Some(Ok([value |-> key[3], docids |-> docids]))]
    ELSE FacetIter_next(
            Append(kept, Frame(docids,
                SubRange(database, FieldId, last.range.ascending,
                         key[2], key[3], key[4]))),
            database, bad, reduce)

\* the facet database a FacetIter is built over, and the three constructors
InitFacetIter ==
    /\ \E level0 \in [FacetValues -> SUBSET FacetDocs], top \in 0..MaxLevel :
         \E cuts \in [1..top -> SUBSET (FacetValues \ {MinValue})] :
            db = FieldEntries(level0, cuts) @@ OtherFields
    \* at most one entry is undecodable: its bitmap (an undecodable key comes
    \* out of the range as the same Err and takes the same path, line 151)
    /\ \E bad \in SUBSET ({"bitmap"} \X {k \in DOMAIN db : k[1] = FieldId}) :
         /\ Cardinality(bad) <= 1
         /\ undecodable = bad
    \* the tree ranges over every assignment of the documents to the values,
    \* so the starting sets {1} and {2} meet the same trees up to renaming
    /\ start_ids \in {{}, {1}, FacetDocs}
    /\ constructor \in {"new_reducing", "new_reverse_reducing", "new_non_reducing"}
    /\ must_reduce = (constructor # "new_non_reducing")
    /\ level_iters = IF constructor = "new_reverse_reducing"
                     THEN new_reverse(db, FieldId, start_ids)
                     ELSE new_ascending(db, FieldId, start_ids)
    /\ facet_items = <<>>

\* facet_iter.rs:100-156  <FacetIter as Iterator>::next
FacetIterNext ==
    /\ Len(facet_items) < MaxFacetNext
    \* the caller gives up once it was told None twice in a row
    /\ ~(/\ Len(facet_items) >= 2
         /\ ~facet_items[Len(facet_items)].some
         /\ ~facet_items[Len(facet_items) - 1].some)
    /\ LET r == FacetIter_next(level_iters, db, undecodable, must_reduce) IN
         /\ level_iters' = r.level_iters
         /\ facet_items' = Append(facet_items, r.item)
    /\ UNCHANGED <<db, undecodable, constructor, must_reduce, start_ids,
                   finalVars, bpfVars, bpVars, rangeVars, critVars, indexVars>>

(***************************************************************************)
(*      One FacetRange and one FacetRevRange over the same level           *)
(***************************************************************************)
MaxRangeNext == 4    \* next calls on each of the two ranges in one behaviour
RangeDocs == {1}
Bounds == {Unbounded} \cup {Included(v) : v \in FacetValues}
                      \cup {Excluded(v) : v \in FacetValues}

\* facet_range.rs:21-38 and 82-99: a FacetRange and a FacetRevRange built
\* with the same arguments over a facet database of two levels, one entry
\* of the scanned level at most being undecodable
InitRanges ==
    /\ \E level0 \in [FacetValues -> SUBSET RangeDocs],
          cuts \in [1..1 -> SUBSET (FacetValues \ {MinValue})] :
            db = FieldEntries(level0, cuts) @@ OtherFields
    /\ \E level \in 0..1, left \in Bounds, right \in Bounds :
         scan = [level |-> level, left |-> left, right |-> right]
    /\ \E bad \in SUBSET ({"key", "bitmap"}
                           \X {k \in DOMAIN db : k[1] = FieldId /\ k[2] = scan.level}) :
         /\ Cardinality(bad) <= 1
         /\ undecodable = bad
    /\ forward = FacetRange_new(db, FieldId, scan.level, scan.left, scan.right)
    /\ backward = FacetRevRange_new(db, FieldId, scan.level, scan.left, scan.right)
    /\ forward_items = <<>>
    /\ backward_items = <<>>
    /\ constructor = "none" /\ must_reduce = FALSE /\ level_iters = <<>>
    /\ start_ids = {} /\ facet_items = <<>>

\* facet_range.rs:49-69  <FacetRange as Iterator>::next
FacetRangeNext ==
    /\ Len(forward_items) < MaxRangeNext
    /\ LET r == FacetRange_next(forward, db, undecodable) IN
         /\ forward' = r.range
         /\ forward_items' = Append(forward_items, r.item)
    /\ UNCHANGED <<scan, backward, backward_items, facetVars,
                   finalVars, bpfVars, bpVars, critVars, indexVars>>

\* facet_range.rs:110-131  <FacetRevRange as Iterator>::next
FacetRevRangeNext ==
    /\ Len(backward_items) < MaxRangeNext
    /\ LET r == FacetRevRange_next(backward, db, undecodable) IN
         /\ backward' = r.range
         /\ backward_items' = Append(backward_items, r.item)
    /\ UNCHANGED <<scan, forward, forward_items, facetVars,
                   finalVars, bpfVars, bpVars, critVars, indexVars>>

(***************************************************************************)
(*        Criterion::from_str and Display (criterion.rs 9-82)              *)
(***************************************************************************)
\* a text is a sequence of characters
str_words     == <<"w", "o", "r", "d", "s">>
str_typo      == <<"t", "y", "p", "o">>
str_proximity == <<"p", "r", "o", "x", "i", "m", "i", "t", "y">>
str_attribute == <<"a", "t", "t", "r", "i", "b", "u", "t", "e">>
str_exactness == <<"e", "x", "a", "c", "t", "n", "e", "s", "s">>
str_asc       == <<"a", "s", "c">>
str_desc      == <<"d", "e", "s", "c">>

\* criterion.rs:14-31  enum Criterion
CriterionWords     == [variant |-> "Words"]
CriterionTypo      == [variant |-> "Typo"]
CriterionProximity == [variant |-> "Proximity"]
CriterionAttribute == [variant |-> "Attribute"]
CriterionExactness == [variant |-> "Exactness"]
CriterionAsc(field_name)  == [variant |-> "Asc", field |-> field_name]
CriterionDesc(field_name) == [variant |-> "Desc", field |-> field_name]

\* the two errors of from_str (criterion.rs:42, 46, 51)
UnknownCriterionName == [err |-> TRUE, kind |-> "unknown criterion name"]
NotFaceted           == [err |-> TRUE, kind |-> "isn't a faceted field"]

\* criterion.rs:10  the class [\w_-] over the characters of the model
WordChars == {"a", "b", "c", "d", "e", "f", "g", "h", "i", "m", "n", "o", "p",
              "r", "s", "t", "u", "w", "x", "y", "A", "1", "_", "-"}

StartsWith(text, i, literal) ==
    /\ i + Len(literal) - 1 <= Len(text)
    /\ SubSeq(text, i, i + Len(literal) - 1) = literal

\* the longest run of [\w_-] characters of text from index i
RECURSIVE WordRun(_, _)
WordRun(text, i) ==
    IF i <= Len(text) /\ text[i] \in WordChars THEN 1 + WordRun(text, i + 1) ELSE 0

\* criterion.rs:10  (asc|desc)\(([\w_-]+)\) matched at index i: its two groups
MatchAt(text, i, order) ==
    LET from == i + Len(order) + 1
        run  == WordRun(text, from)
    IN  IF /\ StartsWith(text, i, order \o <<"(">>)
           /\ run >= 1
           /\ from + run <= Len(text)
           /\ text[from + run] = ")"
        THEN Some([order |-> order, field_name |-> SubSeq(text, from, from + run - 1)])
        ELSE None

\* criterion.rs:42  ASC_DESC_REGEX.captures(text): the leftmost match
captures(text) ==
    LET hits == {i \in 1..Len(text) :
                    MatchAt(text, i, str_asc).some \/ MatchAt(text, i, str_desc).some}
    IN  IF hits = {} THEN None
        ELSE LET i == CHOOSE h \in hits : \A other \in hits : h <= other
             IN  IF MatchAt(text, i, str_asc).some THEN MatchAt(text, i, str_asc)
                 ELSE MatchAt(text, i, str_desc)

\* criterion.rs:34-55  Criterion::from_str
from_str(faceted, text) ==
    CASE text = str_words     -> Ok(CriterionWords)
      [] text = str_typo      -> Ok(CriterionTypo)
      [] text = str_proximity -> Ok(CriterionProximity)
      [] text = str_attribute -> Ok(CriterionAttribute)
      [] text = str_exactness -> Ok(CriterionExactness)
      [] OTHER ->
            LET caps == captures(text) IN
            IF ~caps.some THEN UnknownCriterionName
            ELSE IF caps.val.field_name \notin faceted THEN NotFaceted
            ELSE IF caps.val.order = str_asc THEN Ok(CriterionAsc(caps.val.field_name))
            ELSE IF caps.val.order = str_desc THEN Ok(CriterionDesc(caps.val.field_name))
            ELSE UnknownCriterionName

\* criterion.rs:68-82  impl Display for Criterion
to_string(criterion) ==
    CASE criterion.variant = "Words"     -> str_words
      [] criterion.variant = "Typo"      -> str_typo
      [] criterion.variant = "Proximity" -> str_proximity
      [] criterion.variant = "Attribute" -> str_attribute
      [] criterion.variant = "Exactness" -> str_exactness
      [] criterion.variant = "Asc"  -> str_asc \o <<"(">> \o criterion.field \o <<")">>
      [] criterion.variant = "Desc" -> str_desc \o <<"(">> \o criterion.field \o <<")">>

\* the texts and faceted sets from_str is called with: a criterion name, an
\* asc(..) or desc(..) form or a malformed one, between two runs of at most
\* MaxAffix other characters
MaxAffix == 1
AffixChars == {"x", " ", "("}
FieldNames == {<<"f">>, <<"g", "-", "1">>, <<"h", "_">>}
Affixes == UNION {[1..n -> AffixChars] : n \in 0..MaxAffix}
Cores ==
    {str_words, str_typo, str_proximity, str_attribute, str_exactness}
        \cup {order \o <<"(">> \o name \o <<")">> :
                 order \in {str_asc, str_desc}, name \in FieldNames}
        \cup {<<>>, str_asc \o <<"(", ")">>, <<"A", "s", "c", "(", "f", ")">>,
              str_desc \o <<"(", "f", " ", "f", ")">>}
Texts == {prefix \o core \o suffix :
            prefix \in Affixes, core \in Cores, suffix \in Affixes}

InitCriterion ==
    /\ faceted_attributes \in SUBSET FieldNames
    /\ txt \in Texts
    /\ parsed = None
    /\ rendered = None

\* criterion.rs:34-55  a call of Criterion::from_str
FromStr ==
    /\ ~parsed.some
    /\ parsed' = Some(from_str(faceted_attributes, txt))
    /\ UNCHANGED <<faceted_attributes, txt, rendered,
                   finalVars, bpfVars, bpVars, facetVars, rangeVars, indexVars>>

\* criterion.rs:68-82  formatting the criterion that was parsed
Format ==
    /\ parsed.some /\ ~parsed.val.err /\ ~rendered.some
    /\ rendered' = Some(to_string(parsed.val.val))
    /\ UNCHANGED <<faceted_attributes, txt, parsed,
                   finalVars, bpfVars, bpVars, facetVars, rangeVars, indexVars>>

(***************************************************************************)
(*      The indexer: parallel index_csv over ID_GENERATOR (bin/indexer.rs) *)
(***************************************************************************)
MaxFiles == 2
MaxRecords == 2

\* opt.files_to_index, one index_csv each
Files == 1..MaxFiles

\* faulty variant: the counter is read and left as it was
fetch_add_Load(value, val) == [previous |-> value, value |-> value]

\* indexer.rs:258  AtomicUsize::fetch_add(val, SeqCst): one indivisible step
\* that adds val and returns the previous value.  usize wraps beyond the
\* integers of the model; the counter stays below MaxFiles * MaxRecords.
fetch_add(value, val) == [previous |-> value, value |-> value + val]

\* indexer.rs:259  DocumentId::try_from(usize): the same number as a u32.
\* It fails above u32::MAX only, which no counter of the model reaches.
try_from(n) == IF n \in Nat THEN Ok(n) ELSE Err

InitIndexer ==
    /\ ID_GENERATOR = 0
    /\ rdr \in [Files -> 0..MaxRecords]
    /\ at = [f \in Files |-> "spawned"]
    /\ documents = [f \in Files |-> <<>>]
    /\ records_read = [f \in Files |-> 0]

\* indexer.rs:373-374, 241-255  the closure of main opens the file, index_csv
\* reads and writes the headers; each `?` may end the job with an error
Open(f) ==
    /\ at[f] = "spawned"
    /\ \E ok \in BOOLEAN : at' = [at EXCEPT ![f] = IF ok THEN "read" ELSE "failed"]
    /\ UNCHANGED <<ID_GENERATOR, rdr, documents, records_read,
                   finalVars, bpfVars, bpVars, facetVars, rangeVars, critVars>>

\* indexer.rs:257, 298-317  rdr.read_record(&mut document)?: a record, the
\* end of the file (the job then builds its store and returns) or an error
ReadRecord(f) ==
    /\ at[f] = "read"
    /\ \E ok \in BOOLEAN :
          IF ~ok
          THEN /\ at' = [at EXCEPT ![f] = "failed"]
               /\ UNCHANGED <<rdr, records_read>>
          ELSE IF rdr[f] = 0
          THEN /\ at' = [at EXCEPT ![f] = "returned"]
               /\ UNCHANGED <<rdr, records_read>>
          ELSE /\ rdr' = [rdr EXCEPT ![f] = @ - 1]
               /\ records_read' = [records_read EXCEPT ![f] = @ + 1]
               /\ at' = [at EXCEPT ![f] = "generate"]
    /\ UNCHANGED <<ID_GENERATOR, documents,
                   finalVars, bpfVars, bpVars, facetVars, rangeVars, critVars>>

\* indexer.rs:258-296  the body of the loop: the id is drawn from
\* ID_GENERATOR and converted, the words are indexed under it and the
\* document is pushed with it
GenerateId(f) ==
    /\ at[f] = "generate"
    /\ LET drawn == fetch_add(ID_GENERATOR, 1)
           document_id == try_from(drawn.previous)
       IN  /\ ID_GENERATOR' = drawn.value
           /\ IF document_id.err
              THEN /\ at' = [at EXCEPT ![f] = "failed"]
                   /\ UNCHANGED documents
              ELSE /\ at' = [at EXCEPT ![f] = "read"]
                   /\ documents' = [documents EXCEPT ![f] = Append(@, document_id.val)]
    /\ UNCHANGED <<rdr, records_read,
                   finalVars, bpfVars, bpVars, facetVars, rangeVars, critVars>>

(***************************************************************************)
(*                          Specifications                                 *)
(***************************************************************************)
\* the components a specification does not exercise stay as constructed
IdleFinal ==
    /\ query = None /\ parent_pending = {} /\ returned_candidates = {}
    /\ emitted = <<>> /\ last_out = Ok(None) /\ last_excluded = {}
    /\ handed = {} /\ last_bucket = Ok(None) /\ calls = 0 /\ drain_clean = TRUE
    /\ storage_failed = FALSE
IdleBpf ==
    /\ current_position = 0 /\ proximity = 0 /\ next_positions = <<>>
    /\ bpf_called = FALSE /\ bpf_result = None
IdleBp ==
    /\ positions = <<>> /\ current_proximity = None /\ bp_items = <<>>
IdleFacet ==
    /\ db = <<>> /\ undecodable = {} /\ constructor = "none" /\ must_reduce = FALSE
    /\ level_iters = <<>> /\ start_ids = {} /\ facet_items = <<>>
IdleCriterion ==
    /\ faceted_attributes = {} /\ txt = <<>> /\ parsed = None /\ rendered = None
IdleRange ==
    /\ scan = [level |-> 0, left |-> Unbounded, right |-> Unbounded]
    /\ forward = FacetRange_new(<<>>, FieldId, 0, Unbounded, Unbounded)
    /\ backward = FacetRevRange_new(<<>>, FieldId, 0, Unbounded, Unbounded)
    /\ forward_items = <<>> /\ backward_items = <<>>

IdleIndexer ==
    /\ ID_GENERATOR = 0 /\ rdr = <<>> /\ at = <<>> /\ documents = <<>>
    /\ records_read = <<>>

\* Final over a parent criterion
InitFinal == InitFinalState /\ IdleBpf /\ IdleBp /\ IdleFacet /\ IdleRange /\ IdleCriterion
    /\ IdleIndexer
NextFinal == Call
SpecFinal == InitFinal /\ [][NextFinal]_vars

\* one call of best_proximity_for
InitProximityFor == InitBpf /\ IdleFinal /\ IdleBp /\ IdleFacet /\ IdleRange /\ IdleCriterion
    /\ IdleIndexer
NextProximityFor == CallBestProximityFor
SpecProximityFor == InitProximityFor /\ [][NextProximityFor]_vars

\* one BestProximity iterator
InitBestProximity == InitBp /\ IdleFinal /\ IdleBpf /\ IdleFacet /\ IdleRange /\ IdleCriterion
    /\ IdleIndexer
NextBestProximity == BestProximityNext
SpecBestProximity == InitBestProximity /\ [][NextBestProximity]_vars

\* one FacetIter over a facet database
InitFacet == InitFacetIter /\ IdleFinal /\ IdleBpf /\ IdleBp /\ IdleRange /\ IdleCriterion
    /\ IdleIndexer
NextFacet == FacetIterNext
SpecFacet == InitFacet /\ [][NextFacet]_vars

\* a FacetRange and a FacetRevRange over one level
InitRange == InitRanges /\ IdleFinal /\ IdleBpf /\ IdleBp /\ IdleCriterion
    /\ IdleIndexer
NextRange == FacetRangeNext \/ FacetRevRangeNext
SpecRange == InitRange /\ [][NextRange]_vars

\* one text parsed by Criterion::from_str and formatted back
InitParse == InitCriterion /\ IdleFinal /\ IdleBpf /\ IdleBp /\ IdleFacet /\ IdleRange
    /\ IdleIndexer
NextParse == FromStr \/ Format
SpecParse == InitParse /\ [][NextParse]_vars

\* the jobs of main's into_par_iter, interleaved statement by statement
InitIndex == InitIndexer /\ IdleFinal /\ IdleBpf /\ IdleBp /\ IdleFacet /\ IdleRange
    /\ IdleCriterion
NextIndex ==
    \/ \E f \in Files : Open(f)
    \/ \E f \in Files : ReadRecord(f)
    \/ \E f \in Files : GenerateId(f)
SpecIndex == InitIndex /\ [][NextIndex]_vars

(***************************************************************************)
(*                        Claims about Final                               *)
(***************************************************************************)
EmittedCandidates == [i \in 1..Len(emitted) |-> emitted[i].candidates]

\* the last call returned Ok(Some(FinalResult))
Yielded == calls > 0 /\ ~last_out.err /\ last_out.val.some
\* the last call returned Ok(None)
Exhausted == calls > 0 /\ ~last_out.err /\ ~last_out.val.some

\* C1: the candidates of the FinalResults returned by one Final are
\* pairwise disjoint, whatever the parent yields and the caller excludes.
C1_PairwiseDisjoint ==
    \A i, j \in 1..Len(emitted) :
        i # j => emitted[i].candidates \cap emitted[j].candidates = {}

\* C2: a drain with an empty caller-excluded bitmap that ends with None
\* has reported exactly the documents the search's query tree resolves to.
C2_DrainComplete ==
    (Exhausted /\ drain_clean) => SeqUnion(EmittedCandidates) = Matching(query)

C2_Witness ==
    /\ Exhausted /\ drain_clean
    /\ Len(emitted) >= 2
    /\ query.some /\ Matching(query) # documents_ids

\* C3: the excluded_candidates handed to the parent is the caller's excluded
\* united with returned_candidates, which is the union of the candidates of
\* every FinalResult emitted by the earlier calls.
EmittedBefore == IF Yielded THEN SubSeq(EmittedCandidates, 1, Len(emitted) - 1)
                 ELSE EmittedCandidates

C3_ExcludedHanded ==
    /\ calls > 0 => handed = last_excluded \cup SeqUnion(EmittedBefore)
    /\ returned_candidates = SeqUnion(EmittedCandidates)

C3_Witness ==
    /\ Yielded /\ Len(emitted) >= 2
    /\ last_excluded # {}
    /\ SeqUnion(EmittedBefore) # {}
    /\ ~(last_excluded \subseteq SeqUnion(EmittedBefore))
    /\ ~(SeqUnion(EmittedBefore) \subseteq last_excluded)

\* C4: a bucket without candidates is emitted with the resolution of its
\* query tree (every document when it has no query tree) as candidates and
\* with bucket_candidates grown by them; a bucket with candidates is
\* emitted unchanged.
C4_Materialized ==
    (Yielded /\ ~last_bucket.err /\ last_bucket.val.some) =>
        LET b == last_bucket.val.val
            r == last_out.val.val
        IN  /\ r.query_tree = b.query_tree
            /\ IF b.candidates.some
               THEN /\ r.candidates = b.candidates.val
                    /\ r.bucket_candidates = b.bucket_candidates
               ELSE /\ r.candidates = Matching(b.query_tree)
                    /\ r.bucket_candidates = b.bucket_candidates \cup r.candidates

C4_Witness ==
    /\ Yielded
    /\ ~last_bucket.val.val.candidates.some
    /\ last_bucket.val.val.query_tree.some
    /\ last_bucket.val.val.bucket_candidates # {}
    /\ ~(last_out.val.val.candidates \subseteq last_bucket.val.val.bucket_candidates)

\* the last call failed to resolve the query tree of the parent's bucket
ResolveFailed ==
    /\ storage_failed
    /\ last_bucket.val.val.query_tree.some

\* C17 as stated: once resolving a bucket's query tree has failed, the
\* caller has seen one error and no result, not even from earlier calls.
C17_PartialResultDiscarded ==
    ResolveFailed => (last_out = Err /\ emitted = <<>>)

\* C17 amended: the call in which the resolution fails returns the error
\* alone; it emits no FinalResult and leaves returned_candidates and the
\* results of the earlier calls as they were.
C17_FailingCallReturnsErrorOnly ==
    [][ResolveFailed' =>
          /\ last_out' = Err
          /\ emitted' = emitted
          /\ returned_candidates' = returned_candidates]_vars

\* a resolution failed after an earlier call had returned a bucket
C17_Witness ==
    /\ ResolveFailed
    /\ last_out = Err
    /\ emitted # <<>>

(***************************************************************************)
(*                  Claims about best_proximity_for                        *)
(***************************************************************************)
Attr(position) == extract_position(position)[1]
Range(seq) == {seq[i] : i \in 1..Len(seq)}
MinOf(S) == CHOOSE x \in S : \A y \in S : x <= y

\* the pairwise cost as spec section 4.5 words it: in order, capped at 7
SpecCost(p, q) ==
    IF Attr(p) # Attr(q) THEN 8
    ELSE IF q = p THEN 0
    ELSE IF q > p THEN Min(q - p, 7)
    ELSE Min(p - q + 1, 8)

\* the pairwise cost with the in-order distance capped at 8
CappedCost(p, q) ==
    IF Attr(p) # Attr(q) THEN 8
    ELSE IF q = p THEN 0
    ELSE IF q > p THEN Min(q - p, 8)
    ELSE Min(p - q + 1, 8)

\* the result is the cheapest cost >= proximity over `entries`, with every
\* entry of that cost, and None when no entry costs that much
AgreesWith(Cost(_, _), entries) ==
    LET reach == {q \in entries : Cost(current_position, q) >= proximity} IN
    IF reach = {} THEN bpf_result = None
    ELSE LET best == MinOf({Cost(current_position, q) : q \in reach}) IN
         /\ bpf_result.some
         /\ bpf_result.val.proximity = best
         /\ Range(bpf_result.val.positions) =
                {q \in entries : Cost(current_position, q) = best}

Returnable ==
    {q \in Range(next_positions) :
        ~(Attr(current_position) = 0 /\ q < current_position
            /\ CappedCost(current_position, q) = 8)}

C8_CatchAll ==
    (bpf_called /\ proximity = 8) =>
        LET far == {q \in Range(next_positions) :
                       \/ Attr(q) # Attr(current_position)
                       \/ q <= current_position - 7
                       \/ q >= current_position + 8}
        IN  IF far = {} THEN bpf_result = None
            ELSE /\ bpf_result.some
                 /\ bpf_result.val.proximity = 8
                 /\ Range(bpf_result.val.positions) = far

\* C9: a result of cost below 8 holds only positions of the attribute of
\* the current position.
C9_SameAttributeBelow8 ==
    (bpf_called /\ bpf_result.some /\ bpf_result.val.proximity < 8) =>
        \A q \in Range(bpf_result.val.positions) : Attr(q) = Attr(current_position)

C9_Witness ==
    /\ bpf_called /\ bpf_result.some /\ bpf_result.val.proximity < 8
    /\ \E q \in Range(next_positions) :
          /\ Attr(q) # Attr(current_position)
          /\ q - current_position \in 1..7

(***************************************************************************)
(*                     Claims about BestProximity                          *)
(***************************************************************************)
\* one position per term
Assignments(lists) ==
    {a \in [1..Len(lists) -> UNION {Range(lists[i]) : i \in 1..Len(lists)}] :
        \A i \in 1..Len(lists) : a[i] \in Range(lists[i])}

RECURSIVE TotalCost(_)
TotalCost(a) ==
    IF Len(a) <= 1 THEN 0 ELSE SpecCost(a[1], a[2]) + TotalCost(Tail(a))

RECURSIVE LexLess(_, _)
LexLess(a, b) ==
    /\ a # <<>>
    /\ \/ a[1] < b[1]
       \/ a[1] = b[1] /\ LexLess(Tail(a), Tail(b))

\* by total proximity, ties by the lexicographic order of the positions
Before(a, b) ==
    \/ TotalCost(a) < TotalCost(b)
    \/ TotalCost(a) = TotalCost(b) /\ LexLess(a, b)

RECURSIVE InOrder(_)
InOrder(S) ==
    IF S = {} THEN <<>>
    ELSE LET first == CHOOSE a \in S : \A b \in S \ {a} : Before(a, b)
         IN  <<[proximity |-> TotalCost(first), positions |-> first]>>
               \o InOrder(S \ {first})

\* the i-th item of an iterator that yields `expected` and then None
ItemOf(expected, i) == IF i <= Len(expected) THEN Some(expected[i]) ELSE None

AllNonEmpty(lists) == lists # <<>> /\ \A i \in 1..Len(lists) : lists[i] # <<>>

\* best_proximity.rs:163-171  what tests::same_attribute expects
SameAttributeItems ==
    << [proximity |-> 3, positions |-> <<0, 1, 3>>],
       [proximity |-> 4, positions |-> <<2, 1, 3>>],
       [proximity |-> 5, positions |-> <<3, 1, 3>>],
       [proximity |-> 6, positions |-> <<0, 1, 6>>],
       [proximity |-> 6, positions |-> <<4, 1, 3>>],
       [proximity |-> 7, positions |-> <<2, 1, 6>>],
       [proximity |-> 8, positions |-> <<3, 1, 6>>],
       [proximity |-> 9, positions |-> <<4, 1, 6>> ] >>

\* C5: over non-empty lists BestProximity yields every assignment once, by
\* non-decreasing total proximity and then lexicographically, and then
\* None; for [[0,2,3,4],[1],[3,6]] these are the eight items of the test.
C5_EnumeratesInOrder ==
    /\ AllNonEmpty(positions) =>
          \A i \in 1..Len(bp_items) :
              bp_items[i] = ItemOf(InOrder(Assignments(positions)), i)
    /\ positions = SameAttributeLists =>
          \A i \in 1..Len(bp_items) : bp_items[i] = ItemOf(SameAttributeItems, i)

\* C6: with an empty position list, or no list at all, the first next()
\* returns None.
C6_EmptyListEmitsNothing ==
    (~AllNonEmpty(positions) /\ bp_items # <<>>) => bp_items[1] = None

(***************************************************************************)
(*                        Claims about FacetIter                           *)
(***************************************************************************)
\* the calls that returned Some(Ok((value, docids)))
OkItems == {i \in 1..Len(facet_items) :
               facet_items[i].some /\ ~facet_items[i].val.err}
ItemValue(i)  == facet_items[i].val.val.value
ItemDocids(i) == facet_items[i].val.val.docids

\* C10: the facet values of the successive items are strictly increasing
\* for new_reducing and new_non_reducing, strictly decreasing for
\* new_reverse_reducing.
C10_ValuesInOrder ==
    \A i, j \in OkItems :
        i < j => IF constructor = "new_reverse_reducing"
                 THEN ItemValue(i) > ItemValue(j)
                 ELSE ItemValue(i) < ItemValue(j)

C10_Witness ==
    /\ constructor = "new_reverse_reducing"
    /\ Cardinality(OkItems) >= 2
    /\ unwrap_or(highest_level(db, FieldId), 0) >= 2

\* the last call returned None and no call returned an error
Drained ==
    /\ facet_items # <<>>
    /\ ~facet_items[Len(facet_items)].some
    /\ \A i \in 1..Len(facet_items) :
          facet_items[i].some => ~facet_items[i].val.err

FieldKeys(level) == {k \in DOMAIN db : k[1] = FieldId /\ k[2] = level}

\* higher levels aggregate the ranges of the level below: a range of level
\* k - 1 lies inside a range of level k or apart from it
Hierarchical ==
    \A upper \in {k \in DOMAIN db : k[1] = FieldId /\ k[2] > 0} :
        \A lower \in FieldKeys(upper[2] - 1) :
            \/ upper[3] <= lower[3] /\ lower[4] <= upper[4]
            \/ lower[4] < upper[3]
            \/ upper[4] < lower[3]

\* the documents that have the facet
HavingFacet == UNION {db[k] : k \in FieldKeys(0)}

\* C11: over a hierarchical facet tree, the bitmaps emitted by a drained
\* reducing FacetIter are non-empty, pairwise disjoint, and their union is
\* the starting set intersected with the documents having the facet.
C11_ReducingPartition ==
    (must_reduce /\ Drained /\ Hierarchical) =>
        /\ \A i \in OkItems : ItemDocids(i) # {}
        /\ \A i, j \in OkItems : i # j => ItemDocids(i) \cap ItemDocids(j) = {}
        /\ UNION {ItemDocids(i) : i \in OkItems} = start_ids \cap HavingFacet

\* a drained descent through two upper levels that emitted two bitmaps
C11_Witness ==
    /\ must_reduce /\ Hierarchical /\ Drained
    /\ unwrap_or(highest_level(db, FieldId), 0) >= 2
    /\ Cardinality(FieldKeys(1)) >= 2
    /\ Cardinality(OkItems) >= 2

\* C12: over a hierarchical facet tree, a drained new_non_reducing FacetIter
\* has emitted, for every level-0 value whose bitmap meets the starting set,
\* exactly one item: the value with its bitmap cut to the starting set.
C12_NonReducingEveryValue ==
    (constructor = "new_non_reducing" /\ Drained /\ Hierarchical) =>
        /\ \A k \in FieldKeys(0) :
              db[k] \cap start_ids # {} =>
                  /\ Cardinality({i \in OkItems : ItemValue(i) = k[3]}) = 1
                  /\ \A i \in OkItems :
                        ItemValue(i) = k[3] => ItemDocids(i) = db[k] \cap start_ids
        /\ \A i \in OkItems :
              \E k \in FieldKeys(0) :
                  k[3] = ItemValue(i) /\ db[k] \cap start_ids # {}

\* a document with two facet values was emitted once for each of them
C12_Witness ==
    /\ constructor = "new_non_reducing" /\ Hierarchical /\ Drained
    /\ unwrap_or(highest_level(db, FieldId), 0) >= 1
    /\ \E i, j \in OkItems : i # j /\ ItemDocids(i) \cap ItemDocids(j) # {}

TreeHeight == unwrap_or(highest_level(db, FieldId), 0)
SomeItems == {i \in 1..Len(facet_items) : facet_items[i].some}

\* C20: a FacetIter yields no more items than the tree has level-0 entries
\* (and undecodable ones), returns None only once its stack is empty and
\* None again on every later call; its stack never holds more than
\* TreeHeight + 1 frames, of strictly decreasing levels from bottom to top.
C20_BoundedDescent ==
    /\ SomeItems # {} =>
          Cardinality(SomeItems) <= Cardinality(FieldKeys(0)) + Cardinality(undecodable)
    /\ \A i, j \in 1..Len(facet_items) :
          (i < j /\ ~facet_items[i].some) => ~facet_items[j].some
    /\ (facet_items # <<>> /\ ~facet_items[Len(facet_items)].some) =>
          level_iters = <<>>
    /\ Len(level_iters) > 1 => Len(level_iters) <= TreeHeight + 1
    /\ \A i, j \in 1..Len(level_iters) :
          i < j => level_iters[i].range.level > level_iters[j].range.level

\* a descent through three frames
C20_Witness ==
    /\ TreeHeight >= 2
    /\ Len(level_iters) = TreeHeight + 1
    /\ SomeItems # {}

\* the facet values of a document
ValuesOf(d) == {k[3] : k \in {e \in FieldKeys(0) : d \in db[e]}}

\* C21: over a hierarchical facet tree, a drained reducing FacetIter has
\* emitted every document of the starting set that has the facet under
\* exactly one value: its smallest one for new_reducing, its largest one
\* for new_reverse_reducing.
C21_EmittedUnderExtremeValue ==
    (must_reduce /\ Drained /\ Hierarchical) =>
        \A d \in start_ids \cap HavingFacet :
            /\ Cardinality({i \in OkItems : d \in ItemDocids(i)}) = 1
            /\ \A i \in OkItems :
                  d \in ItemDocids(i) =>
                      /\ ItemValue(i) \in ValuesOf(d)
                      /\ \A v \in ValuesOf(d) :
                            IF constructor = "new_reverse_reducing"
                            THEN v <= ItemValue(i)
                            ELSE ItemValue(i) <= v

\* a document whose two values lie under different entries of level 1 was
\* emitted by a drained descending descent
C21_Witness ==
    /\ constructor = "new_reverse_reducing" /\ Drained /\ Hierarchical
    /\ TreeHeight >= 1
    /\ \E d \in start_ids :
          /\ Cardinality(ValuesOf(d)) >= 2
          /\ \E i \in OkItems : d \in ItemDocids(i)
          /\ \E a, b \in FieldKeys(1) :
                a # b /\ d \in db[a] /\ d \in db[b]

(***************************************************************************)
(*              Claims about FacetRange and FacetRevRange                  *)
(***************************************************************************)
\* the calls of a range that returned Some(Ok((key, docids)))
Entries(items) == {i \in 1..Len(items) : items[i].some /\ ~items[i].val.err}
Failures(items) == {i \in 1..Len(items) : items[i].some /\ items[i].val.err}
EntryKey(items, i) == items[i].val.val.key

\* the keys of the entries yielded, in the order of the calls
RECURSIVE YieldedKeys(_)
YieldedKeys(items) ==
    IF items = <<>> THEN <<>>
    ELSE LET before == YieldedKeys(SubSeq(items, 1, Len(items) - 1)) IN
         IF Len(items) \in Entries(items)
         THEN Append(before, EntryKey(items, Len(items)))
         ELSE before

\* range_high lies inside the high bound
InsideHigh(right) ==
    \/ scan.right.kind = "Unbounded"
    \/ scan.right.kind = "Included" /\ right <= scan.right.val
    \/ scan.right.kind = "Excluded" /\ right < scan.right.val

\* the stored entries of the field and level from where the scan starts
\* (an entry (l, min_value) is the only one Excluded(l) leaves out), in key order
Stored ==
    KeysInOrder({k \in DOMAIN db :
        /\ k[1] = FieldId /\ k[2] = scan.level
        /\ \/ scan.left.kind = "Unbounded"
           \/ scan.left.kind = "Included" /\ k[3] >= scan.left.val
           \/ scan.left.kind = "Excluded" /\ k[3] > scan.left.val
           \/ scan.left.kind = "Excluded" /\ k[3] = scan.left.val /\ k[4] > MinValue})

\* C13: a FacetRange yields entries of its field and level in ascending key
\* order, each with range_high inside the high bound; every call scans one
\* stored entry, and the call that scans an entry whose range_high is
\* beyond the high bound returns None, leaving the later entries unscanned.
C13_ForwardScan ==
    /\ \A i \in Entries(forward_items) :
          LET k == EntryKey(forward_items, i) IN
            /\ k[1] = FieldId /\ k[2] = scan.level
            /\ InsideHigh(k[4])
    /\ \A i, j \in Entries(forward_items) :
          i < j => KeyLess(EntryKey(forward_items, i), EntryKey(forward_items, j))
    /\ \A i \in 1..Len(forward_items) :
          IF i > Len(Stored) THEN forward_items[i] = None
          ELSE IF <<"key", Stored[i]>> \in undecodable
              THEN forward_items[i] = Some(Err)
          ELSE IF InsideHigh(Stored[i][4])
              THEN /\ forward_items[i].some
                   /\ i \in Entries(forward_items) =>
                         EntryKey(forward_items, i) = Stored[i]
          ELSE forward_items[i] = None
    /\ Len(forward_items) <= Len(Stored) =>
          Len(forward.iter) + Len(forward_items) = Len(Stored)

\* an entry was yielded, the next call returned None at an entry beyond the
\* high bound, and a later entry is still unscanned
C13_Witness ==
    /\ Len(forward_items) >= 2
    /\ Len(forward_items) - 1 \in Entries(forward_items)
    /\ forward_items[Len(forward_items)] = None
    /\ Len(forward_items) <= Len(Stored)
    /\ forward.iter # <<>>

\* C14: once a next() call of a FacetRange, a FacetRevRange or a FacetIter
\* has returned a decoding error, no later call yields a further entry.
C14_ErrorStops ==
    /\ \A i \in Failures(forward_items) :
          \A j \in Entries(forward_items) : j < i
    /\ \A i \in Failures(backward_items) :
          \A j \in Entries(backward_items) : j < i
    /\ \A i \in Failures(facet_items) :
          \A j \in Entries(facet_items) : j < i

\* C18: with the low bound Excluded(l) no entry yielded has range_low = l,
\* with Included(l) none has range_low below l.
C18_LowBoundEnforced ==
    \A items \in {forward_items, backward_items} :
        \A i \in Entries(items) :
            LET k == EntryKey(items, i) IN
              /\ scan.left.kind = "Excluded" => k[3] # scan.left.val
              /\ scan.left.kind = "Included" => k[3] >= scan.left.val

\* both ranges have reported the end of their scan
BothDrained ==
    /\ \E i \in 1..Len(forward_items) : forward_items[i] = None
    /\ \E i \in 1..Len(backward_items) : backward_items[i] = None

\* C19: over a level of disjoint ranges, once both have reported the end
\* of their scan, the FacetRevRange has yielded the entries the FacetRange
\* has yielded, in the reverse order.
C19_ReverseOfForward ==
    BothDrained =>
        YieldedKeys(backward_items) = Reverse(YieldedKeys(forward_items))

\* two entries were yielded by both, and the FacetRevRange skipped an entry
\* beyond the high bound on its way
C19_Witness ==
    /\ BothDrained
    /\ Len(YieldedKeys(forward_items)) >= 2
    /\ \E i \in 1..Len(Stored) :
          /\ <<"key", Stored[i]>> \notin undecodable
          /\ ~InsideHigh(Stored[i][4])

(***************************************************************************)
(*                      Claims about Criterion                             *)
(***************************************************************************)
\* the text is exactly order(f): f, a non-empty field name, is what stands
\* between the parentheses
Inner(text, order) == SubSeq(text, Len(order) + 2, Len(text) - 1)
IsExactly(text, order) ==
    /\ Len(text) >= Len(order) + 3
    /\ StartsWith(text, 1, order \o <<"(">>)
    /\ text[Len(text)] = ")"
    /\ \A i \in Len(order) + 2 .. Len(text) - 1 : text[i] \in WordChars

\* C15: from_str succeeds only on exactly a criterion name, yielding that
\* criterion, or on exactly asc(f) or desc(f) with f faceted, yielding
\* Asc(f) or Desc(f); asc(f) or desc(f) with f not faceted fails with the
\* not-faceted error and every other text with the unknown-name error.
C15_ParsesExactTextsOnly ==
    parsed.some =>
        parsed.val =
            CASE txt = str_words     -> Ok(CriterionWords)
              [] txt = str_typo      -> Ok(CriterionTypo)
              [] txt = str_proximity -> Ok(CriterionProximity)
              [] txt = str_attribute -> Ok(CriterionAttribute)
              [] txt = str_exactness -> Ok(CriterionExactness)
              [] IsExactly(txt, str_asc) ->
                    IF Inner(txt, str_asc) \in faceted_attributes
                    THEN Ok(CriterionAsc(Inner(txt, str_asc))) ELSE NotFaceted
              [] IsExactly(txt, str_desc) ->
                    IF Inner(txt, str_desc) \in faceted_attributes
                    THEN Ok(CriterionDesc(Inner(txt, str_desc))) ELSE NotFaceted
              [] OTHER -> UnknownCriterionName

\* C16: the parsed criterion formats back to the text it was parsed from.
C16_RoundTrip ==
    rendered.some => rendered.val = txt

(***************************************************************************)
(*                      Claims about the indexer                           *)
(***************************************************************************)
\* every document pushed so far, as <<file, index>>
Pushed == UNION {{<<f, i>> : i \in 1..Len(documents[f])} : f \in Files}
IdOf(p) == documents[p[1]][p[2]]
HandedOut == {IdOf(p) : p \in Pushed}
\* every record read so far, as <<file, number>>
Read == UNION {{<<f, i>> : i \in 1..records_read[f]} : f \in Files}
\* the jobs that have read a record and not yet drawn its id
Drawing == {f \in Files : at[f] = "generate"}

\* C22: under every interleaving of the jobs, no two records have the same
\* document id, the ids handed out are exactly 0..k-1 for the k records that
\* have one, and every record read has its id unless its job stands between
\* read_record and fetch_add: once the n records read have all gone through
\* fetch_add, the ids are exactly 0..n-1.
C22_UniqueDenseIds ==
    /\ \A p, q \in Pushed : IdOf(p) = IdOf(q) => p = q
    /\ HandedOut = 0..(Cardinality(Pushed) - 1)
    /\ Cardinality(Read) = Cardinality(Pushed) + Cardinality(Drawing)

C22_Witness ==
    /\ Drawing = {}
    /\ \E f, g \in Files :
          /\ f # g /\ Len(documents[f]) >= 2 /\ Len(documents[g]) >= 1
          /\ documents[f][1] < documents[g][1]
          /\ documents[g][1] < documents[f][2]

====
